---- MODULE Spec2Model ----
(***************************************************************************)
(* Model of solver.py: the pairing routine solve() and the bounded retry   *)
(* loop of the main block that calls it and hands the pairs to             *)
(* send_emails().                                                          *)
(*                                                                         *)
(* A participant is the dict {"name": .., "email": ..}; Python compares    *)
(* dicts by value (receiver == giver, list.remove) while the paranoia test *)
(* of solve() compares names only.  The three lists the code holds         *)
(* (participants, givers, receivers) live in a small object store so that  *)
(* copying and aliasing are distinguishable.                               *)
(***************************************************************************)
EXTENDS Integers, Sequences, FiniteSets

VARIABLES heap, pairs, gi, receiver, attempts, main_pairs, sent, failed, pc, outcome

vars == <<heap, pairs, gi, receiver, attempts, main_pairs, sent, failed, pc, outcome>>

\* largest number of participants in settings.yml that is explored
MaxN == 3

\* max_attempts = 20
max_attempts == 20

----------------------------------------------------------------------------
\* Inputs

Person == [name : 1..MaxN, email : 1..MaxN]

\* value of a name that is not bound yet
None == [name |-> 0, email |-> 0]

Max(S) == IF S = {} THEN 0 ELSE CHOOSE m \in S : \A x \in S : x <= m

\* Participant lists up to renaming of names and e-mail addresses: a name is
\* at most one more than the names before it, and an e-mail at most one more
\* than the e-mails of the earlier entries that carry the same name.
Canonical(p) ==
    \A i \in 1..Len(p) :
        /\ p[i].name <= 1 + Max({p[j].name : j \in 1..(i-1)})
        /\ p[i].email <= 1 + Max({p[j].email : j \in {k \in 1..(i-1) : p[k].name = p[i].name}})

Inputs == {p \in UNION {[1..n -> Person] : n \in 0..MaxN} : Canonical(p)}

----------------------------------------------------------------------------
\* Pure helpers

\* the list object the name `receivers` is bound to: a deep copy
receiversAlias == "participants"
receiversRef == "receivers"

\* the list object the name `givers` is bound to: a deep copy
giversRef == "givers"

givers == heap[giversRef]
receivers == heap[receiversRef]
participants == heap["participants"]

\* for giver in givers
giver == givers[gi]

\* random.shuffle: every permutation of the list
Permutations(s) ==
    {[i \in 1..Len(s) |-> s[f[i]]] :
        f \in {g \in [1..Len(s) -> 1..Len(s)] : \A a, b \in 1..Len(s) : g[a] = g[b] => a = b}}

\* list.remove(x): drops the first element equal to x
removeKeep(s, x) == s
remove(s, x) ==
    LET i == CHOOSE k \in 1..Len(s) : s[k] = x /\ \A j \in 1..(k-1) : s[j] # x
    IN  SubSeq(s, 1, i-1) \o SubSeq(s, i+1, Len(s))

\* if receiver == giver
selfDrawIdentity == FALSE
selfDraw == receiver = giver

\* if len(receivers) == 1
lastReceiverTwo == Len(receivers) <= 2
lastReceiverNever == FALSE
lastReceiver == Len(receivers) = 1

giveCount(ps, person) == Cardinality({i \in 1..Len(ps) : ps[i][1].name = person.name})
receiveCount(ps, person) == Cardinality({i \in 1..Len(ps) : ps[i][2].name = person.name})

\* the paranoia test of solve(): both assertions hold for every person
paranoiaTest(ps) ==
    \A k \in 1..Len(participants) :
        /\ giveCount(ps, participants[k]) = 1
        /\ receiveCount(ps, participants[k]) = 1

----------------------------------------------------------------------------
Init ==
    /\ \E p \in Inputs : heap = [participants |-> p, givers |-> <<>>, receivers |-> <<>>]
    /\ pairs = <<>>
    /\ gi = 0
    /\ receiver = None
    /\ attempts = 0
    /\ main_pairs = <<>>
    /\ sent = <<>>
    /\ failed = 0
    /\ pc = "for"
    /\ outcome = "running"

\* for _ in range(max_attempts): attempts = attempts + 1; pairs = solve(participants)
\* up to the head of the giver loop
MainFor ==
    /\ pc = "for"
    /\ attempts < max_attempts
    /\ attempts' = attempts + 1
    /\ \E shuffled \in Permutations(participants) :
          heap' = [[heap EXCEPT ![giversRef] = participants] EXCEPT ![receiversRef] = shuffled]
    /\ pairs' = <<>>
    /\ gi' = 1
    /\ pc' = IF Len(participants) = 0 THEN "check" ELSE "draw"
    /\ UNCHANGED <<receiver, main_pairs, sent, failed, outcome>>

\* the for loop runs out of iterations: print("Finished!")
MainExhausted ==
    /\ pc = "for"
    /\ attempts >= max_attempts
    /\ pc' = "done"
    /\ outcome' = "Finished"
    /\ UNCHANGED <<heap, pairs, gi, receiver, attempts, main_pairs, sent, failed>>

\* receiver = random.choice(receivers)
Choice(i) ==
    /\ pc = "draw"
    /\ i \in 1..Len(receivers)
    /\ receiver' = receivers[i]
    /\ pc' = "test"
    /\ UNCHANGED <<heap, pairs, gi, attempts, main_pairs, sent, failed, outcome>>

\* receiver == giver and len(receivers) == 1: raise DeadEndException
DeadEnd ==
    /\ pc = "test"
    /\ selfDraw
    /\ lastReceiver
    /\ pc' = "except"
    /\ UNCHANGED <<heap, pairs, gi, receiver, attempts, main_pairs, sent, failed, outcome>>

\* receiver == giver and more than one receiver left: next round of while True
Redraw ==
    /\ pc = "test"
    /\ selfDraw
    /\ ~lastReceiver
    /\ pc' = "draw"
    /\ UNCHANGED <<heap, pairs, gi, receiver, attempts, main_pairs, sent, failed, outcome>>

\* else: pairs.append([giver, receiver]); receivers.remove(receiver); break
Commit ==
    /\ pc = "test"
    /\ ~selfDraw
    /\ pairs' = Append(pairs, <<giver, receiver>>)
    /\ heap' = [heap EXCEPT ![receiversRef] = remove(receivers, receiver)]
    /\ gi' = gi + 1
    /\ pc' = IF gi = Len(givers) THEN "check" ELSE "draw"
    /\ UNCHANGED <<receiver, attempts, main_pairs, sent, failed, outcome>>

\* the paranoia test, then return pairs (bound to pairs of the main block)
ParanoiaTest ==
    /\ pc = "check"
    /\ IF paranoiaTest(pairs)
         THEN /\ main_pairs' = <<pairs>>
              /\ pc' = "send"
              /\ outcome' = outcome
         ELSE /\ main_pairs' = main_pairs
              /\ pc' = "done"
              /\ outcome' = "AssertionError"
    /\ UNCHANGED <<heap, pairs, gi, receiver, attempts, sent, failed>>

\* send_emails(config, rules, pairs, dry_run); else: break; print("Finished!")
SendEmailsNoBreak ==
    /\ pc = "send"
    /\ sent' = Append(sent, main_pairs[1])
    /\ pc' = "for"
    /\ UNCHANGED <<heap, pairs, gi, receiver, attempts, main_pairs, failed, outcome>>
SendEmails ==
    /\ pc = "send"
    /\ sent' = Append(sent, main_pairs[1])
    /\ pc' = "done"
    /\ outcome' = "Finished"
    /\ UNCHANGED <<heap, pairs, gi, receiver, attempts, main_pairs, failed>>

\* except DeadEndException: print("Failed to solve, retrying..."); continue
ExceptDeadEnd ==
    /\ pc = "except"
    /\ failed' = failed + 1
    /\ pc' = "for"
    /\ UNCHANGED <<heap, pairs, gi, receiver, attempts, main_pairs, sent, outcome>>

Next ==
    \/ MainFor
    \/ MainExhausted
    \/ \E i \in 1..MaxN : Choice(i)
    \/ DeadEnd
    \/ Redraw
    \/ Commit
    \/ ParanoiaTest
    \/ SendEmails
    \/ ExceptDeadEnd

Spec == Init /\ [][Next]_vars

\* random.choice is uniform: an element of the pool that can be drawn again
\* and again is eventually drawn; the interpreter keeps running
FairSpec ==
    /\ Init
    /\ [][Next]_vars
    /\ WF_vars(Next)
    /\ \A i \in 1..MaxN : SF_vars(Choice(i))

----------------------------------------------------------------------------
\* Properties

DistinctNames(p) == \A i, j \in 1..Len(p) : p[i].name = p[j].name => i = j

\* at least 2 participants with distinct names
Precondition == Len(participants) >= 2 /\ DistinctNames(participants)

\* ps pairs every participant, in the order of the list, with a receiver, and
\* the receivers are exactly the participants
IsPairing(ps) ==
    /\ Len(ps) = Len(participants)
    /\ \A i \in 1..Len(ps) : ps[i][1].name = participants[i].name
    /\ {ps[i][2].name : i \in 1..Len(ps)} = {participants[i].name : i \in 1..Len(participants)}

\* C1: for at least 2 participants with distinct names, when the giver loop
\* of solve completes without DeadEnd the pair list has one pair per
\* participant, everybody gives once and receives once, the paranoia
\* assertions never fail, and a returned pairing passes them again.
C1_Completeness ==
    Precondition =>
        /\ pc = "check" => IsPairing(pairs) /\ paranoiaTest(pairs)
        /\ outcome # "AssertionError"
        /\ main_pairs # <<>> => IsPairing(main_pairs[1]) /\ paranoiaTest(main_pairs[1])
        /\ \A k \in 1..Len(sent) : IsPairing(sent[k]) /\ paranoiaTest(sent[k])

C1_Witness == Precondition /\ Len(participants) >= 3 /\ pc = "send"

NoSelfPair(ps) == \A i \in 1..Len(ps) : ps[i][1] # ps[i][2]

\* C2: no committed pair, in any state of solve or in a returned or delivered
\* pairing, has its giver equal to its receiver.
C2_NoSelfPairing ==
    /\ NoSelfPair(pairs)
    /\ \A k \in 1..Len(main_pairs) : NoSelfPair(main_pairs[k])
    /\ \A k \in 1..Len(sent) : NoSelfPair(sent[k])

C2_Witness == Len(sent) = 1 /\ Len(sent[1]) >= 3

\* C3: when every attempt ended in DeadEnd the driver has made exactly
\* max_attempts attempts and ends in a failure outcome that is not the
\* normal "Finished" outcome of a successful run.
C3_ExhaustedAttempts ==
    (Precondition /\ pc = "done" /\ sent = <<>>) =>
        /\ attempts = max_attempts
        /\ failed = max_attempts
        /\ outcome # "Finished"

\* C4: with exactly 2 participants A, B of distinct names solve never raises
\* DeadEnd and what it returns is [(A,B), (B,A)].
C4_TwoParticipants ==
    (Len(participants) = 2 /\ DistinctNames(participants)) =>
        /\ pc # "except"
        /\ failed = 0
        /\ pc \in {"check", "send"} =>
              pairs = << <<participants[1], participants[2]>>, <<participants[2], participants[1]>> >>
        /\ main_pairs # <<>> =>
              main_pairs[1] = << <<participants[1], participants[2]>>, <<participants[2], participants[1]>> >>

C4_Witness ==
    /\ Len(participants) = 2
    /\ DistinctNames(participants)
    /\ pc = "send"
    /\ heap["receivers"] = <<>>

\* C5: a DeadEnd is caught by the driver and, while fewer than max_attempts
\* attempts were made, followed by a fresh call of solve; a new attempt starts
\* only when all earlier attempts ended in DeadEnd; no exception other than
\* the assertion leaves the driver; after a successful solve no further
\* attempt is made.
C5_RetryOnDeadEnd ==
    /\ [](pc = "for" => failed = attempts)
    /\ [](outcome \in {"running", "Finished", "AssertionError"})
    /\ [][/\ pc = "except" => pc' = "for" /\ failed' = failed + 1 /\ attempts' = attempts
          /\ (pc = "for" /\ attempts < max_attempts) =>
                attempts' = attempts + 1 /\ pairs' = <<>> /\ pc' \in {"draw", "check"}
          /\ attempts' # attempts =>
                pc = "for" /\ failed = attempts /\ attempts < max_attempts /\ main_pairs = <<>>
          /\ main_pairs # <<>> => attempts' = attempts /\ pc' \in {"send", "done"}]_vars

C5_Witness == pc = "done" /\ sent # <<>> /\ attempts = 3 /\ failed = 2

\* C6: send_emails is called at most once, with the complete pairing a
\* successful solve returned; while an attempt is being built or has ended in
\* DeadEnd nothing of it is returned or delivered; when all attempts ended in
\* DeadEnd nothing was delivered.
C6_AllOrNothing ==
    /\ Len(sent) <= 1
    /\ Len(main_pairs) <= 1
    /\ \A k \in 1..Len(sent) :
          sent = main_pairs /\ Len(sent[k]) = Len(participants) /\ paranoiaTest(sent[k])
    /\ \A k \in 1..Len(main_pairs) :
          main_pairs[k] = pairs /\ Len(pairs) = Len(participants) /\ pc \in {"send", "done"}
    /\ pc \in {"draw", "test", "except", "for", "check"} => main_pairs = <<>> /\ sent = <<>>
    /\ failed = max_attempts => sent = <<>> /\ main_pairs = <<>>

C6_Witness == pc = "done" /\ Len(sent) = 1 /\ failed >= 1 /\ Len(sent[1]) >= 3

\* C7: no step changes the list participants, and an attempt starts with an
\* empty pair list, the givers in the order of participants and a receiver
\* pool that holds exactly the participants.
C7_InputUnchanged ==
    [][/\ participants' = participants
       /\ attempts' # attempts =>
             /\ pairs' = <<>>
             /\ givers' = participants
             /\ receivers' \in Permutations(participants)]_vars

C7_Witness ==
    /\ attempts >= 2
    /\ pc = "draw"
    /\ gi = 1
    /\ pairs = <<>>
    /\ Len(participants) >= 3
    /\ receivers # participants

\* C9: for at least 2 participants of distinct names, solve raises DeadEnd
\* exactly when the candidate equals the giver and the pool holds that one
\* element; this is at the last giver with n-1 pairs committed, and nothing
\* else of the attempt changes.  A self-draw with a larger pool changes
\* neither pool nor pairs nor giver and goes back to the draw.
C9_DeadEnd ==
    [][Precondition =>
        /\ (pc # "except" /\ pc' = "except") <=>
              (pc = "test" /\ receiver = givers[gi] /\ Len(heap["receivers"]) = 1)
        /\ (pc # "except" /\ pc' = "except") =>
              /\ gi = Len(participants)
              /\ Len(pairs) = Len(participants) - 1
              /\ UNCHANGED <<heap, pairs, gi, main_pairs, sent>>
        /\ (pc = "test" /\ receiver = givers[gi] /\ Len(heap["receivers"]) > 1) =>
              /\ pc' = "draw"
              /\ UNCHANGED <<heap, pairs, gi>>]_vars

C9_Witness == Precondition /\ pc = "except" /\ Len(pairs) = Len(participants) - 1

\* C10: for at least 2 participants of distinct names and fair draws, every
\* attempt ends in the paranoia test or in DeadEnd, at most max_attempts
\* attempts are made, and the run finishes.
C10_Termination ==
    Precondition =>
        /\ (pc \in {"draw", "test"}) ~> (pc \in {"check", "except"})
        /\ [](attempts <= max_attempts)
        /\ <>(pc = "done")

C10_Witness == Precondition /\ pc = "done" /\ failed >= 1 /\ Len(participants) >= 3

====
